---- MODULE Spec2Model ----
(***************************************************************************)
(* Model of chatbotwithvoice.py: a Streamlit script whose session state is *)
(* the conversation list `messages` and the pointer `last_record_path`.    *)
(* One user action (Record, Clear last recording, typed text, Clear Chat,  *)
(* sidebar toggle) starts one run of the script; the run blocks through    *)
(* recording, transcription, completion and speech in that order.          *)
(* Text is modelled as a sequence of characters so that str.strip() is     *)
(* computed, an optional value (None or a value) as a sequence of length   *)
(* 0 or 1, and a temp file path as a positive integer (0 is None).         *)
(***************************************************************************)
EXTENDS Integers, Sequences, FiniteSets, TLC

\* ---------------------------------------------------------------- bounds
MaxLen == 1      \* longest raw text returned by a service or typed
MaxTurns == 5    \* a handler starts only if its two appends fit
MaxFiles == 2    \* temp files created over a behaviour

\* ------------------------------------------------------------ text, None
Alphabet == {" ", "a"}
Whitespace == {" "}
RawTexts == UNION {[1..n -> Alphabet] : n \in 0..MaxLen}

None == <<>>
Some(v) == <<v>>

RECURSIVE LStrip(_)
LStrip(s) == IF s # <<>> /\ Head(s) \in Whitespace THEN LStrip(Tail(s)) ELSE s

RECURSIVE RStrip(_)
RStrip(s) ==
    IF s # <<>> /\ s[Len(s)] \in Whitespace
    THEN RStrip(SubSeq(s, 1, Len(s) - 1))
    ELSE s

Strip(s) == RStrip(LStrip(s))

\* Python truthiness of an optional string: None and "" are falsy.
Truthy(opt) == opt # None /\ opt[1] # <<>>

\* ------------------------------------------------------------- constants
DEFAULT_SYSTEM == <<"S">>     \* "You are a helpful, concise AI assistant."
PLACEHOLDER == <<"!">>        \* "Could not get a reply from OpenAI."
NoPath == 0

Turn(r, c) == [role |-> r, content |-> c]
SystemTurn == Turn("system", DEFAULT_SYSTEM)

\* Messages shown to the user during one run of the script.
ErrNoDevice == "error: sounddevice not available"
ErrRecording == "error: Recording failed"
ErrTranscription == "error: Transcription error"
ErrChat == "error: OpenAI call failed"
WarnTranscribe == "warning: Could not transcribe the recording"
WarnTTS == "warning: TTS error"
InfoCleared == "info: Cleared last recording"

VARIABLES
    messages,          \* st.session_state["messages"]
    last_record_path,  \* st.session_state["last_record_path"]
    HAVE_SOUNDDEVICE,  \* set once at import
    HAVE_TTS,          \* set once at import
    auto_speak,        \* sidebar checkbox
    pc,                \* position of the running script
    wav_path,          \* local of the Record handler
    text,              \* local of the Record handler (optional string)
    chatResult,        \* return value of call_openai_chat (optional string)
    reply,             \* local `reply` after the None substitution
    tmpfiles,          \* temp files created so far, by path: their state
    notices,           \* st.error / st.warning / st.info of the current run
    chatCalled,        \* call_openai_chat was called in the current run
    speech,            \* what happened to speech in the current run
    deleteFailed,      \* some os.remove raised (and was swallowed)
    lastOp,            \* the user action that started the current run
    before,            \* messages when the current run started
    beforePath         \* last_record_path when the current run started

vars == <<messages, last_record_path, HAVE_SOUNDDEVICE, HAVE_TTS, auto_speak,
          pc, wav_path, text, chatResult, reply, tmpfiles, notices,
          chatCalled, speech, deleteFailed, lastOp, before, beforePath>>

env == <<HAVE_SOUNDDEVICE, HAVE_TTS>>

Init ==
    /\ messages = <<SystemTurn>>
    /\ last_record_path = NoPath
    /\ HAVE_SOUNDDEVICE \in BOOLEAN
    /\ HAVE_TTS \in BOOLEAN
    /\ auto_speak = HAVE_TTS
    /\ pc = "Idle"
    /\ wav_path = NoPath
    /\ text = None
    /\ chatResult = None
    /\ reply = None
    /\ tmpfiles = <<>>
    /\ notices = {}
    /\ chatCalled = FALSE
    /\ speech = "none"
    /\ deleteFailed = FALSE
    /\ lastOp = "start"
    /\ before = <<SystemTurn>>
    /\ beforePath = NoPath

\* A new run of the script: locals are unbound, the page is redrawn.
NewRun(op) ==
    /\ lastOp' = op
    /\ before' = messages
    /\ beforePath' = last_record_path
    /\ wav_path' = NoPath
    /\ text' = None
    /\ chatResult' = None
    /\ reply' = None
    /\ chatCalled' = FALSE
    /\ speech' = "none"

\* list.append (lines 176, 184, 206, 215); the variant inserts after the
\* system Turn instead.
AppendTurn_Insert(ms, t) == <<Head(ms), t>> \o Tail(ms)

AppendTurn(ms, t) == Append(ms, t)

\* `if wav_path:` (line 164); the variant goes on without a recording.
IfWavPath_Always(p) == TRUE

IfWavPath(p) == p # NoPath

\* `if text:` (line 172); the variant tests `is not None` only.
IfText_NotNone(opt) == opt # None

IfText(opt) == Truthy(opt)

\* `if reply is None: reply = <placeholder>` (lines 181-182, 212-213); the
\* variant substitutes an empty reply.
ReplyOrPlaceholder_Empty(opt) == IF opt = None THEN <<>> ELSE opt[1]

ReplyOrPlaceholder(opt) == IF opt = None THEN PLACEHOLDER ELSE opt[1]

\* `[st.session_state["messages"][0]]` (line 223); the variants keep the
\* last element, or the first two.
ResetMessages_Last(ms) == <<ms[Len(ms)]>>

ResetMessages_Two(ms) == SubSeq(ms, 1, IF Len(ms) >= 2 THEN 2 ELSE 1)

ResetMessages(ms) == <<ms[1]>>

\* ------------------------------------------------------------- helpers
\* record_local, given sounddevice is importable: the outcome of the device
\* and of the file write decide the result. Returns the path (or NoPath),
\* the temp files afterwards, and the error shown.
record_local(have, outcome, files) ==
    IF ~have
    THEN [path |-> NoPath, files |-> files, shown |-> {ErrNoDevice}]
    ELSE CASE outcome = "capture_error" ->
                [path |-> NoPath, files |-> files, shown |-> {ErrRecording}]
           [] outcome = "write_error" ->
                [path |-> NoPath, files |-> Append(files, "partial"),
                 shown |-> {ErrRecording}]
           [] OTHER ->
                [path |-> Len(files) + 1, files |-> Append(files, "wav"),
                 shown |-> {}]

RecordOutcomes == {"ok", "capture_error", "write_error"}

\* transcribe_with_openai_whisper: resp is None when the call raised,
\* otherwise the raw text field of the response.
transcribe_with_openai_whisper(resp) ==
    IF resp = None
    THEN [value |-> None, shown |-> {ErrTranscription}]
    ELSE [value |-> Some(Strip(resp[1])), shown |-> {}]

\* call_openai_chat: resp is None when the call raised, otherwise the raw
\* content of the first choice.
call_openai_chat(resp) ==
    IF resp = None
    THEN [value |-> None, shown |-> {ErrChat}]
    ELSE [value |-> Some(Strip(resp[1])), shown |-> {}]

ServiceResponses == {None} \cup {Some(r) : r \in RawTexts}

\* speak_text_local: result and warning for an engine outcome.
speak_text_local(have, outcome) ==
    IF ~have
    THEN [ok |-> FALSE, shown |-> {}]
    ELSE IF outcome = "error"
         THEN [ok |-> FALSE, shown |-> {WarnTTS}]
         ELSE [ok |-> TRUE, shown |-> {}]

SpeechOutcomes == {"ok", "error"}

\* ------------------------------------------------------------- actions
\* Record pressed without sounddevice (lines 158-160).
RecordUnavailable ==
    /\ pc = "Idle"
    /\ ~HAVE_SOUNDDEVICE
    /\ NewRun("Record")
    /\ notices' = {ErrNoDevice}
    /\ UNCHANGED <<messages, last_record_path, env, auto_speak, pc, tmpfiles,
                   deleteFailed>>

\* Record pressed: the handler enters record_local (lines 158-163).
RecordStart ==
    /\ pc = "Idle"
    /\ HAVE_SOUNDDEVICE
    /\ Len(messages) + 2 <= MaxTurns
    /\ Len(tmpfiles) < MaxFiles
    /\ NewRun("Record")
    /\ notices' = {}
    /\ pc' = "Recording"
    /\ UNCHANGED <<messages, last_record_path, env, auto_speak, tmpfiles,
                   deleteFailed>>

\* record_local returns (lines 163-170).
RecordDone ==
    /\ pc = "Recording"
    /\ \E outcome \in RecordOutcomes :
         LET r == record_local(HAVE_SOUNDDEVICE, outcome, tmpfiles) IN
           /\ wav_path' = r.path
           /\ tmpfiles' = r.files
           /\ notices' = notices \cup r.shown
           /\ IF IfWavPath(r.path)
              THEN /\ last_record_path' = r.path
                   /\ pc' = "Transcribing"
              ELSE /\ last_record_path' = last_record_path
                   /\ pc' = "Idle"
    /\ UNCHANGED <<messages, env, auto_speak, text, chatResult, reply,
                   chatCalled, speech, deleteFailed, lastOp, before,
                   beforePath>>

\* transcribe_with_openai_whisper returns (lines 171-176, 188-189).
Transcribed ==
    /\ pc = "Transcribing"
    /\ \E resp \in ServiceResponses :
         LET t == transcribe_with_openai_whisper(resp) IN
           /\ text' = t.value
           /\ IF IfText(t.value)
              THEN /\ messages' = AppendTurn(messages, Turn("user", t.value[1]))
                   /\ notices' = notices \cup t.shown
                   /\ pc' = "AwaitingReply"
              ELSE /\ messages' = messages
                   /\ notices' = notices \cup t.shown \cup {WarnTranscribe}
                   /\ pc' = "Idle"
    /\ UNCHANGED <<last_record_path, env, auto_speak, wav_path, chatResult,
                   reply, tmpfiles, chatCalled, speech, deleteFailed, lastOp,
                   before, beforePath>>

\* Clear last recording pressed (lines 191-198).
ClearLastRecording ==
    /\ pc = "Idle"
    /\ NewRun("ClearLast")
    /\ IF last_record_path # NoPath
       THEN \E removed \in BOOLEAN :
              IF removed
              THEN /\ tmpfiles' = [tmpfiles EXCEPT ![last_record_path] = "removed"]
                   /\ deleteFailed' = deleteFailed
              ELSE /\ tmpfiles' = tmpfiles
                   /\ deleteFailed' = TRUE
       ELSE UNCHANGED <<tmpfiles, deleteFailed>>
    /\ last_record_path' = NoPath
    /\ notices' = {InfoCleared}
    /\ UNCHANGED <<messages, env, auto_speak, pc>>

\* Text submitted through the chat input (lines 203-207).
TextSubmit ==
    /\ pc = "Idle"
    /\ Len(messages) + 2 <= MaxTurns
    /\ \E text_input \in RawTexts :
         /\ text_input # <<>>
         /\ LET user_text == Strip(text_input) IN
              messages' = AppendTurn(messages, Turn("user", user_text))
    /\ NewRun("Text")
    /\ notices' = {}
    /\ pc' = "AwaitingReply"
    /\ UNCHANGED <<last_record_path, env, auto_speak, tmpfiles, deleteFailed>>

\* Variant of Reply that goes on to speech without having appended.
Reply_SpeakBeforeAppend ==
    /\ pc = "AwaitingReply"
    /\ \E resp \in ServiceResponses :
         LET c == call_openai_chat(resp)
             r == ReplyOrPlaceholder(c.value)
         IN
           /\ chatResult' = c.value
           /\ reply' = Some(r)
           /\ notices' = notices \cup c.shown
           /\ messages' = messages
    /\ chatCalled' = TRUE
    /\ pc' = "Speaking"
    /\ UNCHANGED <<last_record_path, env, auto_speak, wav_path, text,
                   tmpfiles, speech, deleteFailed, lastOp, before, beforePath>>

\* call_openai_chat returns and the reply is appended
\* (lines 180-184 and 211-215).
Reply ==
    /\ pc = "AwaitingReply"
    /\ \E resp \in ServiceResponses :
         LET c == call_openai_chat(resp)
             r == ReplyOrPlaceholder(c.value)
         IN
           /\ chatResult' = c.value
           /\ reply' = Some(r)
           /\ notices' = notices \cup c.shown
           /\ messages' = AppendTurn(messages, Turn("assistant", r))
    /\ chatCalled' = TRUE
    /\ pc' = "Speaking"
    /\ UNCHANGED <<last_record_path, env, auto_speak, wav_path, text,
                   tmpfiles, speech, deleteFailed, lastOp, before, beforePath>>

\* The reply is spoken if enabled (lines 186-187 and 216-217).
Speak ==
    /\ pc = "Speaking"
    /\ IF auto_speak /\ HAVE_TTS
       THEN \E outcome \in SpeechOutcomes :
              LET s == speak_text_local(HAVE_TTS, outcome) IN
                /\ speech' = IF s.ok THEN "ok" ELSE "error"
                /\ notices' = notices \cup s.shown
       ELSE /\ speech' = IF HAVE_TTS THEN "disabled" ELSE "unavailable"
            /\ notices' = notices
    /\ pc' = "Idle"
    /\ UNCHANGED <<messages, last_record_path, env, auto_speak, wav_path,
                   text, chatResult, reply, tmpfiles, chatCalled,
                   deleteFailed, lastOp, before, beforePath>>

\* Variant of ClearChat that leaves the current-recording pointer alone.
ClearChat_KeepsPointer ==
    /\ pc = "Idle"
    /\ NewRun("ClearChat")
    /\ messages' = ResetMessages(messages)
    /\ last_record_path' = last_record_path
    /\ notices' = {}
    /\ UNCHANGED <<env, auto_speak, pc, tmpfiles, deleteFailed>>

\* Clear Chat pressed (lines 222-225).
ClearChat ==
    /\ pc = "Idle"
    /\ NewRun("ClearChat")
    /\ messages' = ResetMessages(messages)
    /\ last_record_path' = NoPath
    /\ notices' = {}
    /\ UNCHANGED <<env, auto_speak, pc, tmpfiles, deleteFailed>>

\* The auto-speak checkbox is toggled (line 137).
ToggleAutoSpeak ==
    /\ pc = "Idle"
    /\ NewRun("Toggle")
    /\ auto_speak' = ~auto_speak
    /\ notices' = {}
    /\ UNCHANGED <<messages, last_record_path, env, pc, tmpfiles,
                   deleteFailed>>

Next ==
    \/ RecordUnavailable
    \/ RecordStart
    \/ RecordDone
    \/ Transcribed
    \/ ClearLastRecording
    \/ TextSubmit
    \/ Reply
    \/ Speak
    \/ ClearChat
    \/ ToggleAutoSpeak

Spec == Init /\ [][Next]_vars

\* Every external call returns: a started handler takes its next step.
FairSpec ==
    /\ Spec
    /\ WF_vars(RecordDone)
    /\ WF_vars(Transcribed)
    /\ WF_vars(Reply)
    /\ WF_vars(Speak)

TypeOK ==
    /\ pc \in {"Idle", "Recording", "Transcribing", "AwaitingReply", "Speaking"}
    /\ last_record_path \in 0..Len(tmpfiles)
    /\ Len(messages) <= MaxTurns

\* ---------------------------------------------------------- properties
IsPrefix(s, t) == Len(s) <= Len(t) /\ SubSeq(t, 1, Len(s)) = s

Recordings == {i \in DOMAIN tmpfiles : tmpfiles[i] = "wav"}

Stage == IF pc = "Speaking" THEN "AwaitingReply" ELSE pc

\* C1: in every reachable state the conversation is non-empty, its first
\* element has role system, and no other element has role system.
C1_SystemTurnFirst ==
    /\ Len(messages) >= 1
    /\ messages[1].role = "system"
    /\ \A i \in 2..Len(messages) : messages[i].role # "system"

C1_Witness ==
    /\ pc = "Idle"
    /\ Len(messages) = 5
    /\ Len(before) = 3
    /\ tmpfiles # <<>>

\* C2: right after Clear Chat, from any state, the conversation is exactly
\* the system Turn with the default instruction content and the
\* current-recording pointer is none.
C2_ResetYieldsSystemOnly ==
    lastOp = "ClearChat" =>
        /\ messages = <<SystemTurn>>
        /\ last_record_path = NoPath

C2_Witness ==
    /\ lastOp = "ClearChat"
    /\ Len(before) >= 3
    /\ beforePath # NoPath
    /\ messages = <<SystemTurn>>

\* C3: every step other than Clear Chat leaves the conversation a prefix of
\* its next value and adds at most one Turn, so only Clear Chat shortens it.
C3_AppendOnly ==
    [][\/ lastOp' = "ClearChat"
       \/ /\ IsPrefix(messages, messages')
          /\ Len(messages') \in {Len(messages), Len(messages) + 1}]_vars

C3_Witness ==
    /\ pc = "Idle"
    /\ lastOp = "Record"
    /\ Len(before) >= 3
    /\ Len(messages) = Len(before) + 2
    /\ IsPrefix(before, messages)

\* C4: when a Record run completed a recording and transcription failed or
\* returned empty text, the conversation equals the one before the run, the
\* completion service was not called and a warning is shown.
C4_NoTranscriptNoTurn ==
    (lastOp = "Record" /\ pc = "Idle" /\ wav_path # NoPath /\ ~Truthy(text)) =>
        /\ messages = before
        /\ ~chatCalled
        /\ WarnTranscribe \in notices

C4_Witness ==
    /\ lastOp = "Record"
    /\ pc = "Idle"
    /\ wav_path # NoPath
    /\ text = Some(<<>>)
    /\ Len(messages) >= 3
    /\ WarnTranscribe \in notices

\* C5: once the completion call of a run has returned, on either path, the
\* conversation is the one before the run plus one user Turn plus exactly
\* one assistant Turn, whose content is the placeholder when the call failed
\* and the returned reply when it succeeded.
C5_OneAssistantTurn ==
    chatCalled =>
        /\ Len(messages) = Len(before) + 2
        /\ IsPrefix(before, messages)
        /\ messages[Len(messages) - 1].role = "user"
        /\ messages[Len(messages)] =
             Turn("assistant",
                  IF chatResult = None THEN PLACEHOLDER ELSE chatResult[1])

C5_Witness ==
    /\ pc = "Idle"
    /\ chatCalled
    /\ chatResult = None
    /\ lastOp = "Record"
    /\ messages[Len(messages)].content = PLACEHOLDER

\* C6: as long as no deletion has failed, at most one recording file made by
\* the program exists on disk and it is the one the current-recording
\* pointer refers to.
C6_SingletonRecording ==
    ~deleteFailed => Recordings \subseteq {last_record_path}

\* C7: the assistant Turn is in the conversation before speech is attempted,
\* and the speech step, whatever its outcome, changes neither the
\* conversation nor the current-recording pointer and ends the run.
C7_SpeechIsCosmetic ==
    /\ [](pc = "Speaking" =>
            /\ reply # None
            /\ messages[Len(messages)] = Turn("assistant", reply[1]))
    /\ [][pc = "Speaking" =>
            /\ messages' = messages
            /\ last_record_path' = last_record_path
            /\ pc' = "Idle"]_vars

C7_Witness ==
    /\ pc = "Idle"
    /\ speech = "error"
    /\ WarnTTS \in notices
    /\ Len(messages) = Len(before) + 2

\* C8: stages follow Idle, Recording, Transcribing, AwaitingReply, Idle on
\* the voice path and Idle, AwaitingReply, Idle on the text path; a failed
\* recording or transcription returns to Idle at once; nothing starts while
\* a run is in progress; and every started run reaches Idle again.
C8_StageStep ==
    \/ Stage = "Idle" /\ Stage' = "Idle"
    \/ Stage = "Idle" /\ Stage' = "Recording" /\ lastOp' = "Record"
    \/ Stage = "Idle" /\ Stage' = "AwaitingReply" /\ lastOp' = "Text"
    \/ /\ Stage = "Recording"
       /\ lastOp' = lastOp
       /\ IF wav_path' # NoPath
          THEN Stage' = "Transcribing"
          ELSE Stage' = "Idle"
    \/ /\ Stage = "Transcribing"
       /\ lastOp' = lastOp
       /\ IF Truthy(text')
          THEN Stage' = "AwaitingReply"
          ELSE Stage' = "Idle"
    \/ /\ Stage = "AwaitingReply"
       /\ lastOp' = lastOp
       /\ Stage' \in {"AwaitingReply", "Idle"}
       /\ Stage' = "Idle" => chatCalled

C8_SequentialStages ==
    /\ [][C8_StageStep]_vars
    /\ [](Stage \in {"Recording", "Transcribing"} => lastOp = "Record")
    /\ (pc # "Idle") ~> (pc = "Idle")

C8_Witness ==
    /\ pc = "Idle"
    /\ lastOp = "Record"
    /\ wav_path # NoPath
    /\ Truthy(text)
    /\ chatCalled
    /\ speech # "none"

\* C9: whenever the controller is Idle the conversation is the system Turn
\* followed by (user, assistant) pairs: odd length, user at even indices,
\* assistant at odd indices above one.
C9_PairsAtIdle ==
    pc = "Idle" =>
        /\ Len(messages) % 2 = 1
        /\ \A i \in 2..Len(messages) :
             messages[i].role = IF i % 2 = 0 THEN "user" ELSE "assistant"

C9_Witness ==
    /\ pc = "Idle"
    /\ Len(messages) = 5
    /\ messages[3].content = PLACEHOLDER
    /\ lastOp = "Text"

\* C10: every user Turn in the conversation has non-empty content.
C10_UserTurnsNonEmpty ==
    \A i \in 1..Len(messages) :
        messages[i].role = "user" => messages[i].content # <<>>
====
